---------------------------- MODULE Spec2Model ----------------------------
(***************************************************************************)
(* A model of unpacker-rs: the P.A.C.K.E.R. unpacker (src/src/lib.rs) and  *)
(* its base decoder (src/src/unbaser.rs).                                  *)
(*                                                                         *)
(* Texts are TLA+ strings; the character at position i of s is             *)
(* SubSeq(s, i, i).  The inputs are ASCII, so byte offsets and character   *)
(* positions coincide.  usize is 64 bits wide and is kept as little-endian *)
(* 16-bit limbs, so that overflow happens where it happens in the program. *)
(***************************************************************************)
EXTENDS Integers, Sequences, FiniteSets, TLC

VARIABLES
    overflow_checks,  \* build profile: TRUE = overflow checks on (dev/test), FALSE = release
    entry,            \* the operation being run
    source,           \* its text input (the token, for unbase)
    n,                \* round-trip driver: the integer the token was encoded from (-1: none)
    pc,               \* position inside the operation
    begin_string,     \* unpack_unchecked: text before the preamble
    end_string,       \* unpack_unchecked: text after the end delimiter
    args,             \* (payload, symtab, radix, count) as filter_args returned them
    unbaser,          \* Result of Unbaser::new
    new_source,       \* output of decode_words
    ret               \* the value returned, or Pending, or Panic

vars == <<overflow_checks, entry, source, n, pc, begin_string, end_string,
          args, unbaser, new_source, ret>>

-----------------------------------------------------------------------------
(* Bounds of the model *)

MaxRadix == 100      \* Unbaser::new is tried on the radixes 0..MaxRadix
MaxValue == 10000    \* the round trip encodes integers up to MaxValue
MaxN == 60           \* ... all of 0..MaxN, and MaxN more spread up to MaxValue
MaxTokenLen == 12    \* unbase is tried on runs of one character up to this length
MaxSpaces == 2       \* the gaps between the tokens of the preamble hold up to MaxSpaces spaces

-----------------------------------------------------------------------------
(* Results *)

Ok(v) == [tag |-> "Ok", val |-> v]
Err(m) == [tag |-> "Err", val |-> m]
Panic(m) == [tag |-> "Panic", val |-> m]
Pending == [tag |-> "Pending", val |-> ""]
None == [tag |-> "None", val |-> ""]

IsOk(r) == r.tag = "Ok"
IsErr(r) == r.tag = "Err"
IsPanic(r) == r.tag = "Panic"

-----------------------------------------------------------------------------
(* Characters and texts *)

CharAt(s, i) == SubSeq(s, i, i)

DIGITS == "0123456789"
LOWER == "abcdefghijklmnopqrstuvwxyz"
UPPER == "ABCDEFGHIJKLMNOPQRSTUVWXYZ"

Min(S) == CHOOSE x \in S : \A y \in S : x <= y
Max(S) == CHOOSE x \in S : \A y \in S : x >= y

CharsOf(s) == {CharAt(s, i) : i \in 1..Len(s)}

\* 0-based position of character c in alphabet, -1 when absent
PosIn(alphabet, c) ==
    IF \E i \in 1..Len(alphabet) : CharAt(alphabet, i) = c
    THEN (CHOOSE i \in 1..Len(alphabet) : CharAt(alphabet, i) = c) - 1
    ELSE -1

\* s has the literal lit at position p (1-based)
HasAt(s, p, lit) ==
    /\ p + Len(lit) - 1 <= Len(s)
    /\ SubSeq(s, p, p + Len(lit) - 1) = lit

\* str::find from position p: position of the first occurrence of pat at or
\* after p, 0 when there is none
FindFrom(s, pat, p) ==
    LET hits == {q \in p..(Len(s) - Len(pat) + 1) : HasAt(s, q, pat)} IN
    IF hits = {} THEN 0 ELSE Min(hits)

Contains(s, pat) == FindFrom(s, pat, 1) # 0

\* str::replace: every non-overlapping occurrence, left to right
RECURSIVE ReplaceFrom(_, _, _, _)
ReplaceFrom(s, pat, rep, p) ==
    LET q == FindFrom(s, pat, p) IN
    IF q = 0 THEN SubSeq(s, p, Len(s))
    ELSE SubSeq(s, p, q - 1) \o rep \o ReplaceFrom(s, pat, rep, q + Len(pat))

StrReplace(s, pat, rep) == ReplaceFrom(s, pat, rep, 1)

\* the texts seq[lo], ..., seq[hi] joined
RECURSIVE Concat(_, _, _)
Concat(seq, lo, hi) ==
    IF lo > hi THEN ""
    ELSE IF lo = hi THEN seq[lo]
    ELSE LET mid == (lo + hi) \div 2 IN
         Concat(seq, lo, mid) \o Concat(seq, mid + 1, hi)

\* str::split(sep).collect(): the segments between the separators, empty ones kept
RECURSIVE SplitFrom(_, _, _)
SplitFrom(s, sep, p) ==
    LET q == FindFrom(s, sep, p) IN
    IF q = 0 THEN <<SubSeq(s, p, Len(s))>>
    ELSE <<SubSeq(s, p, q - 1)>> \o SplitFrom(s, sep, q + Len(sep))

StrSplit_skip_empty(s, sep) == SelectSeq(SplitFrom(s, sep, 1), LAMBDA x : x # "")

StrSplit(s, sep) == SplitFrom(s, sep, 1)

\* str::split_once(delimiter).map(|(_, end)| end)
SplitOnceEnd(s, delimiter) ==
    LET q == FindFrom(s, delimiter, 1) IN
    IF q = 0 THEN None ELSE Ok(SubSeq(s, q + Len(delimiter), Len(s)))

-----------------------------------------------------------------------------
(* usize: 64 bits as four 16-bit limbs, least significant first *)

UsizeBits == 64
LimbBase == 2 ^ 16
UsizeLimbs == UsizeBits \div 16

UZero == [i \in 1..UsizeLimbs |-> 0]
UFromNat(k) == [i \in 1..UsizeLimbs |->
                   IF i = 1 THEN k % LimbBase
                   ELSE IF i = 2 THEN k \div LimbBase ELSE 0]

\* x fits an ordinary small number (below 2^30)
UIsSmall(x) == /\ \A i \in 3..UsizeLimbs : x[i] = 0
               /\ x[2] < 2 ^ 14
UToNat(x) == x[1] + x[2] * LimbBase

\* x * m for a small m: the wrapped product and whether it overflowed
RECURSIVE MulLimbs(_, _, _, _)
MulLimbs(x, m, i, carry) ==
    IF i > UsizeLimbs THEN [val |-> <<>>, of |-> carry > 0]
    ELSE LET t == x[i] * m + carry
             r == MulLimbs(x, m, i + 1, t \div LimbBase)
         IN [val |-> <<t % LimbBase>> \o r.val, of |-> r.of]

UMulSmall(x, m) == MulLimbs(x, m, 1, 0)

RECURSIVE AddLimbs(_, _, _, _)
AddLimbs(x, y, i, carry) ==
    IF i > UsizeLimbs THEN [val |-> <<>>, of |-> carry > 0]
    ELSE LET t == x[i] + y[i] + carry
             r == AddLimbs(x, y, i + 1, t \div LimbBase)
         IN [val |-> <<t % LimbBase>> \o r.val, of |-> r.of]

UAdd(x, y) == AddLimbs(x, y, 1, 0)

\* x divided by a small d: quotient and remainder
RECURSIVE DivLimbs(_, _, _, _)
DivLimbs(x, d, i, rem) ==
    IF i = 0 THEN [val |-> <<>>, rem |-> rem]
    ELSE LET t == rem * LimbBase + x[i]
             r == DivLimbs(x, d, i - 1, t % d)
         IN [val |-> r.val \o <<t \div d>>, rem |-> r.rem]

UDivSmall(x, d) == DivLimbs(x, d, UsizeLimbs, 0)

\* Display for usize (format!("{}", x))
RECURSIVE UToDecimal(_)
UToDecimal(x) ==
    LET q == UDivSmall(x, 10) IN
    IF q.val = UZero THEN CharAt(DIGITS, q.rem + 1)
    ELSE UToDecimal(q.val) \o CharAt(DIGITS, q.rem + 1)

\* str::parse::<usize>(): decimal ASCII digits, an optional leading '+',
\* Err on an empty text, a foreign character or a value above usize::MAX
RECURSIVE ParseDigits(_, _, _, _)
ParseDigits(s, radix, p, acc) ==
    IF p > Len(s) THEN Ok(acc)
    ELSE LET c == CharAt(s, p)
             d == IF PosIn(DIGITS, c) >= 0 THEN PosIn(DIGITS, c)
                  ELSE IF PosIn(LOWER, c) >= 0 THEN 10 + PosIn(LOWER, c)
                  ELSE IF PosIn(UPPER, c) >= 0 THEN 10 + PosIn(UPPER, c)
                  ELSE radix
         IN IF d >= radix THEN Err("InvalidDigit")
            ELSE LET m == UMulSmall(acc, radix)
                     a == UAdd(m.val, UFromNat(d))
                 IN IF m.of \/ a.of THEN Err("PosOverflow")
                    ELSE ParseDigits(s, radix, p + 1, a.val)

\* usize::from_str_radix(input, radix)
FromStrRadix(s, radix) ==
    IF radix \notin 2..36 THEN Panic("from_str_radix: radix must lie in the range [2, 36]")
    ELSE IF s = "" THEN Err("Empty")
    ELSE IF s = "+" \/ s = "-" THEN Err("InvalidDigit")
    ELSE IF CharAt(s, 1) = "+" THEN ParseDigits(s, radix, 2, UZero)
    ELSE ParseDigits(s, radix, 1, UZero)

ParseUsize(s) == FromStrRadix(s, 10)

-----------------------------------------------------------------------------
(* The regex crate, as far as the program's five patterns use it: a pattern *)
(* is a sequence of elements, matched by backtracking in priority order     *)
(* (leftmost-first: a greedy repetition tries the longest run first, a lazy *)
(* one the shortest, an alternation its left branch first).                 *)

Lit(s) == [k |-> "lit", s |-> s]
Rep(cls, min, greedy) == [k |-> "rep", cls |-> cls, min |-> min, greedy |-> greedy]
Open(g) == [k |-> "open", g |-> g]
Close(g) == [k |-> "close", g |-> g]
Alt(a, b) == [k |-> "alt", a |-> a, b |-> b]
WordB == [k |-> "wb"]

\* \w, \d, [ ] and . on the ASCII inputs of the model
WORD_CHARS == CharsOf(DIGITS \o LOWER \o UPPER \o "_")
DIGIT_CHARS == CharsOf(DIGITS)
IsWordChar(c) == c \in WORD_CHARS
IsDigitChar(c) == c \in DIGIT_CHARS
InClass(cls, c) ==
    CASE cls = "word" -> IsWordChar(c)
      [] cls = "digit" -> IsDigitChar(c)
      [] cls = "space" -> c = " "
      [] cls = "any" -> c # "\n"

\* \b at position p: exactly one of the characters before and at p is a word character
AtWordBoundary(s, p) ==
    LET before == p > 1 /\ IsWordChar(CharAt(s, p - 1))
        after == p <= Len(s) /\ IsWordChar(CharAt(s, p))
    IN before # after

\* number of consecutive characters of the class from position p on
RunLen(cls, s, p) ==
    LET stops == {q \in p..Len(s) : ~InClass(cls, CharAt(s, q))} IN
    IF stops = {} THEN Len(s) + 1 - p ELSE Min(stops) - p

NoCaps == [g \in 1..6 |-> <<0, 0>>]
NoMatch == [ok |-> FALSE, start |-> 0, end |-> 0, caps |-> NoCaps]

\* a necessary condition for re to match at position p: the literal it begins
\* with, if it begins with one, is there
RECURSIVE MayStartAt(_, _, _)
MayStartAt(re, s, p) ==
    IF re = <<>> THEN TRUE
    ELSE CASE Head(re).k = "lit" -> HasAt(s, p, Head(re).s)
           [] Head(re).k \in {"open", "close"} -> MayStartAt(Tail(re), s, p)
           [] OTHER -> TRUE

\* the pattern re matched at position p of s, or NoMatch
RECURSIVE MatchAt(_, _, _, _)
RECURSIVE TryCounts(_, _, _, _, _, _)
MatchAt(re, s, p, caps) ==
    IF re = <<>> THEN [ok |-> TRUE, start |-> 0, end |-> p, caps |-> caps]
    ELSE LET e == Head(re)
             rest == Tail(re)
         IN CASE e.k = "lit" ->
                    IF HasAt(s, p, e.s) THEN MatchAt(rest, s, p + Len(e.s), caps)
                    ELSE NoMatch
              [] e.k = "open" ->
                    MatchAt(rest, s, p, [caps EXCEPT ![e.g] = <<p, p>>])
              [] e.k = "close" ->
                    MatchAt(rest, s, p, [caps EXCEPT ![e.g] = <<caps[e.g][1], p>>])
              [] e.k = "wb" ->
                    IF AtWordBoundary(s, p) THEN MatchAt(rest, s, p, caps) ELSE NoMatch
              [] e.k = "alt" ->
                    LET left == MatchAt(e.a \o rest, s, p, caps) IN
                    IF left.ok THEN left ELSE MatchAt(e.b \o rest, s, p, caps)
              [] e.k = "rep" ->
                    LET run == RunLen(e.cls, s, p) IN
                    IF run < e.min THEN NoMatch
                    ELSE TryCounts(rest, s, p, caps,
                                   {cnt \in e.min..run : MayStartAt(rest, s, p + cnt)},
                                   e.greedy)

\* a repetition followed by rest: of the counts it may take, a greedy one
\* tries the largest first, a lazy one the smallest
TryCounts(rest, s, p, caps, counts, greedy) ==
    IF counts = {} THEN NoMatch
    ELSE LET cnt == IF greedy THEN Max(counts) ELSE Min(counts)
             r == MatchAt(rest, s, p + cnt, caps)
         IN IF r.ok THEN r
            ELSE TryCounts(rest, s, p, caps, counts \ {cnt}, greedy)

\* Regex::find / Regex::captures from position p: the leftmost match
RegexFindFrom(re, s, p) ==
    LET starts == {q \in p..(Len(s) + 1) :
                      MayStartAt(re, s, q) /\ MatchAt(re, s, q, NoCaps).ok} IN
    IF starts = {} THEN NoMatch
    ELSE [MatchAt(re, s, Min(starts), NoCaps) EXCEPT !.start = Min(starts)]

RegexFind(re, s) == RegexFindFrom(re, s, 1)

\* caps[g] of a match
Group(s, m, g) == SubSeq(s, m.caps[g][1], m.caps[g][2] - 1)

-----------------------------------------------------------------------------
(* The base decoder, src/src/unbaser.rs *)

ALPHANUMERIC == "0123456789abcdefghijklmnopqrstuvwxyzABCDEFGHIJKLMNOPQRSTUVWXYZ"
\* The grave accent (0x60) cannot be written in a TLA+ string: the form feed,
\* which no input of the model holds, stands for it.
GRAVE == "\f"
EXTENDED_ASCII ==
    " !\"#$%&'()*+,-./0123456789:;<=>?@ABCDEFGHIJKLMNOPQRSTUVWXYZ[\\]^_"
    \o GRAVE \o "abcdefghijklmnopqrstuvwxyz{|}~"

build_dict_one_based(alphabet) == [c \in CharsOf(alphabet) |-> PosIn(alphabet, c) + 1]

\* build_dict: each character of the alphabet maps to its position
build_dict(alphabet) == [c \in CharsOf(alphabet) |-> PosIn(alphabet, c)]

Unbaser_new_from_one(base) ==
    IF base \in 1..36 THEN Ok([base |-> base, dictionary |-> None])
    ELSE IF base \in 37..62
        THEN Ok([base |-> base,
                 dictionary |-> Ok(build_dict(SubSeq(ALPHANUMERIC, 1, base)))])
    ELSE IF base = 95
        THEN Ok([base |-> base, dictionary |-> Ok(build_dict(EXTENDED_ASCII))])
    ELSE Err("Unsupported base encoding.")

\* Unbaser::new(base), base already a small number
Unbaser_new(base) ==
    IF base \in 2..36 THEN Ok([base |-> base, dictionary |-> None])
    ELSE IF base \in 37..62
        THEN Ok([base |-> base,
                 dictionary |-> Ok(build_dict(SubSeq(ALPHANUMERIC, 1, base)))])
    ELSE IF base = 95
        THEN Ok([base |-> base, dictionary |-> Ok(build_dict(EXTENDED_ASCII))])
    ELSE Err("Unsupported base encoding.")

\* Unbaser::new on a usize
Unbaser_new_usize(baseU) ==
    IF UIsSmall(baseU) THEN Unbaser_new(UToNat(baseU))
    ELSE Err("Unsupported base encoding.")

\* the try_fold of unbase_with_dict over input.chars().rev().enumerate():
\* i counts from the right, acc is the running sum and pw is self.base.pow(i),
\* wrapped, with whether one of its products overflowed (pow multiplies by
\* powers of base that never exceed the result, so it overflows exactly when
\* the power itself does)
RECURSIVE FoldDict(_, _, _, _, _, _, _)
FoldDict(dict, base, input, i, acc, pw, checks) ==
    IF i >= Len(input) THEN Ok(acc)
    ELSE LET ch == CharAt(input, Len(input) - i) IN
         IF ch \notin DOMAIN dict THEN Err("Invalid character in input string.")
         ELSE LET pr == UMulSmall(pw.val, dict[ch])
                  sm == UAdd(acc, pr.val)
                  nx == UMulSmall(pw.val, base)
              IN IF checks /\ pw.of THEN Panic("attempt to multiply with overflow")
                 ELSE IF checks /\ pr.of THEN Panic("attempt to multiply with overflow")
                 ELSE IF checks /\ sm.of THEN Panic("attempt to add with overflow")
                 ELSE FoldDict(dict, base, input, i + 1, sm.val,
                               [val |-> nx.val, of |-> pw.of \/ nx.of], checks)

unbase_with_dict(u, input, checks) ==
    IF ~IsOk(u.dictionary) THEN Err("Dictionary not initialized")
    ELSE FoldDict(u.dictionary.val, u.base, input, 0, UZero,
                  [val |-> UFromNat(1), of |-> FALSE], checks)

\* Unbaser::unbase
unbase(u, input, checks) ==
    IF u.base \in 2..36
    THEN LET r == FromStrRadix(input, u.base) IN
         IF IsErr(r) THEN Err("Invalid number format") ELSE r
    ELSE unbase_with_dict(u, input, checks)

-----------------------------------------------------------------------------
(* The unpacker, src/src/lib.rs *)

Sp == Rep("space", 0, TRUE)
Digits1 == Rep("digit", 1, TRUE)
AnyStar == Rep("any", 0, TRUE)

PACKED_REGEX_no_gap_before_a ==
    <<Lit("eval"), Sp, Lit("("), Sp, Lit("function"), Sp, Lit("("), Sp,
      Lit("p"), Sp, Lit(","), Lit("a"), Sp, Lit(","), Sp,
      Lit("c"), Sp, Lit(","), Sp, Lit("k"), Sp, Lit(","), Sp,
      Lit("e"), Sp, Lit(","), Sp>>

\* eval[ ]*\([ ]*function[ ]*\([ ]*p[ ]*,[ ]*a[ ]*,[ ]*c[ ]*,[ ]*k[ ]*,[ ]*e[ ]*,[ ]*
PACKED_REGEX ==
    <<Lit("eval"), Sp, Lit("("), Sp, Lit("function"), Sp, Lit("("), Sp,
      Lit("p"), Sp, Lit(","), Sp, Lit("a"), Sp, Lit(","), Sp,
      Lit("c"), Sp, Lit(","), Sp, Lit("k"), Sp, Lit(","), Sp,
      Lit("e"), Sp, Lit(","), Sp>>

detect(src) == RegexFind(PACKED_REGEX, src).ok

\* }\('(.*)', *(\d+|\[\]), *(\d+), *'(.*)'\.split\('\|'\)
JUICER_SIMPLE ==
    <<Lit("}('"), Open(1), AnyStar, Close(1), Lit("',"), Sp,
      Open(2), Alt(<<Digits1>>, <<Lit("[]")>>), Close(2), Lit(","), Sp,
      Open(3), Digits1, Close(3), Lit(","), Sp,
      Lit("'"), Open(4), AnyStar, Close(4), Lit("'.split('|')")>>

\* ... followed by , *(\d+), *(.*)\)\)
JUICER_FULL ==
    JUICER_SIMPLE \o
    <<Lit(","), Sp, Open(5), Digits1, Close(5), Lit(","), Sp,
      Open(6), AnyStar, Close(6), Lit("))")>>

JUICERS_simple_first == <<JUICER_SIMPLE, JUICER_FULL>>

JUICERS == <<JUICER_FULL, JUICER_SIMPLE>>

\* the body of the loop of filter_args for a juicer that matched
juice(src, m) ==
    LET radix_str == Group(src, m, 2)
        radix == IF radix_str = "[]" THEN Ok(UFromNat(62)) ELSE ParseUsize(radix_str)
        count == ParseUsize(Group(src, m, 3))
    IN IF ~IsOk(radix) THEN Err("Invalid radix")
       ELSE IF ~IsOk(count) THEN Err("Invalid count")
       ELSE Ok([payload |-> Group(src, m, 1),
                symtab |-> StrSplit(Group(src, m, 4), "|"),
                radix |-> radix.val,
                count |-> count.val])

\* for juicer in JUICERS.iter(), from the i-th on
RECURSIVE filter_args_from(_, _)
filter_args_from(src, i) ==
    IF i > Len(JUICERS)
    THEN Err("Could not make sense of p.a.c.k.e.r data (unexpected code structure)")
    ELSE LET m == RegexFind(JUICERS[i], src) IN
         IF m.ok THEN juice(src, m) ELSE filter_args_from(src, i + 1)

filter_args(src) == filter_args_from(src, 1)

\* \b\w+\b
WORD_REGEX == <<WordB, Rep("word", 1, TRUE), WordB>>

\* the match of the closure of decode_words on r = unbaser.unbase(word); a
\* panic of unbase goes through
match_unbase(word, symtab, r) ==
    IF IsPanic(r) THEN r
    ELSE IF /\ IsOk(r)
            /\ UIsSmall(r.val)
            /\ UToNat(r.val) < Len(symtab)
            /\ symtab[UToNat(r.val) + 1] # ""
         THEN Ok(symtab[UToNat(r.val) + 1])
    ELSE Ok(word)

\* the closure of decode_words on one word
decode_word(word, symtab, u, checks) == match_unbase(word, symtab, unbase(u, word, checks))

\* Regex::find_iter / replace_all: the matches of re in s from position p on,
\* left to right, each search starting where the match before ended (no
\* pattern of the program matches the empty text)
RECURSIVE RegexFindAll(_, _, _)
RegexFindAll(re, s, p) ==
    LET m == RegexFindFrom(re, s, p) IN
    IF ~m.ok THEN <<>> ELSE <<m>> \o RegexFindAll(re, s, m.end)

\* WORD_REGEX.replace_all(&cleaned, closure): the text between the matches
\* stays, each match becomes what the closure returns; the closure runs match
\* by match, so the first panic ends the call
replace_matches(cleaned, ms, ws) ==
    LET pieces == [i \in 1..Len(ms) |->
                      SubSeq(cleaned, IF i = 1 THEN 1 ELSE ms[i - 1].end,
                             ms[i].start - 1)
                      \o ws[i].val]
        last == IF ms = <<>> THEN 1 ELSE ms[Len(ms)].end
    IN IF \E i \in 1..Len(ms) : IsPanic(ws[i])
       THEN ws[Min({i \in 1..Len(ms) : IsPanic(ws[i])})]
       ELSE Ok(Concat(pieces, 1, Len(ms)) \o SubSeq(cleaned, last, Len(cleaned)))

\* the closure of decode_words on every match of ms
decode_matches(cleaned, ms, symtab, u, checks) ==
    [i \in 1..Len(ms) |->
        decode_word(SubSeq(cleaned, ms[i].start, ms[i].end - 1), symtab, u, checks)]

replace_words_at(cleaned, ms, symtab, u, checks) ==
    replace_matches(cleaned, ms, decode_matches(cleaned, ms, symtab, u, checks))

replace_words(cleaned, symtab, u, checks) ==
    replace_words_at(cleaned, RegexFindAll(WORD_REGEX, cleaned, 1), symtab, u, checks)

clean_escapes(payload) == StrReplace(StrReplace(payload, "\\\\", "\\"), "\\'", "'")

decode_words(payload, symtab, u, checks) ==
    replace_words(clean_escapes(payload), symtab, u, checks)

STRING_REGEX_any_identifier ==
    <<Lit("var"), Sp, Open(1), Rep("word", 1, TRUE), Close(1),
      Lit("=[\""), Open(2), Rep("any", 0, FALSE), Close(2), Lit("\"];")>>

\* var *(_\w+)\=\["(.*?)"\];
STRING_REGEX ==
    <<Lit("var"), Sp, Open(1), Lit("_"), Rep("word", 1, TRUE), Close(1),
      Lit("=[\""), Open(2), Rep("any", 0, FALSE), Close(2), Lit("\"];")>>

\* the for loop of replace_strings over lookup.iter().enumerate(), from index on
RECURSIVE replace_lookup(_, _, _, _)
replace_lookup(modified_source, var_name, lookup, index) ==
    IF index >= Len(lookup) THEN modified_source
    ELSE LET pattern == var_name \o "[" \o UToDecimal(UFromNat(index)) \o "]"
             replacement == "\"" \o lookup[index + 1] \o "\""
         IN replace_lookup(StrReplace(modified_source, pattern, replacement),
                           var_name, lookup, index + 1)

replace_strings(src) ==
    LET caps == RegexFind(STRING_REGEX, src) IN
    IF caps.ok
    THEN LET var_name == Group(src, caps, 1)
             lookup == StrSplit(Group(src, caps, 2), "\",\"")
             modified_source == replace_lookup(src, var_name, lookup, 0)
             match_end == caps.end - 1
         IN IF match_end > Len(modified_source)
            THEN Panic("byte index out of range")
            ELSE Ok(SubSeq(modified_source, match_end + 1, Len(modified_source)))
    ELSE Ok(src)

\* the end delimiters of unpack_unchecked, in the order they are tried
END_DELIMITERS == <<"')))", "}))">>

RECURSIVE find_end_string(_, _)
find_end_string(src, i) ==
    IF i > Len(END_DELIMITERS) THEN ""
    ELSE LET e == SplitOnceEnd(src, END_DELIMITERS[i]) IN
         IF IsOk(e) THEN e.val ELSE find_end_string(src, i + 1)

symtab_error(count, len) ==
    Err("Malformed p.a.c.k.e.r. symtab. (" \o UToDecimal(count) \o " != "
        \o UToDecimal(UFromNat(len)) \o ")")

-----------------------------------------------------------------------------
(* Running the operations.  Every specification starts an operation on an   *)
(* input drawn from a bounded set and steps through it.                     *)

NoArgs == [payload |-> "", symtab |-> <<>>, radix |-> UZero, count |-> UZero]

Start(e, src, a, k, at) ==
    /\ overflow_checks \in BOOLEAN
    /\ entry = e
    /\ source = src
    /\ args = a
    /\ n = k
    /\ pc = at
    /\ begin_string = ""
    /\ end_string = ""
    /\ unbaser = None
    /\ new_source = ""
    /\ ret = Pending

\* return r
Return(r) == pc' = "done" /\ ret' = r

(* unpack and unpack_unchecked *)

\* if !detect(source) { return Err(..) }
Detect ==
    /\ pc = "detect"
    /\ IF detect(source) THEN pc' = "find" /\ ret' = ret
       ELSE Return(Err("Invalid p.a.c.k.e.r data."))
    /\ UNCHANGED <<overflow_checks, entry, source, n, begin_string, end_string,
                   args, unbaser, new_source>>

\* PACKED_REGEX.find(source).unwrap(), begin_string, end_string
FindSpan ==
    /\ pc = "find"
    /\ LET matcher == RegexFind(PACKED_REGEX, source) IN
       IF matcher.ok
       THEN /\ begin_string' = SubSeq(source, 1, matcher.start - 1)
            /\ end_string' = find_end_string(source, 1)
            /\ pc' = "filter_args"
            /\ ret' = ret
       ELSE /\ Return(Panic("called Option::unwrap() on a None value"))
            /\ UNCHANGED <<begin_string, end_string>>
    /\ UNCHANGED <<overflow_checks, entry, source, n, args, unbaser, new_source>>

\* let (payload, symtab, radix, count) = filter_args(source)?
FilterArgs ==
    /\ pc = "filter_args"
    /\ LET r == filter_args(source) IN
       IF IsOk(r)
       THEN /\ args' = r.val
            /\ IF entry = "filter_args" THEN Return(r)
               ELSE pc' = "count" /\ ret' = ret
       ELSE Return(r) /\ args' = args
    /\ UNCHANGED <<overflow_checks, entry, source, n, begin_string, end_string,
                   unbaser, new_source>>

\* if count != symtab.len() { return Err(..) }
CheckCount ==
    /\ pc = "count"
    /\ IF args.count # UFromNat(Len(args.symtab))
       THEN Return(symtab_error(args.count, Len(args.symtab)))
       ELSE pc' = "new" /\ ret' = ret
    /\ UNCHANGED <<overflow_checks, entry, source, n, begin_string, end_string,
                   args, unbaser, new_source>>

\* let unbaser = Unbaser::new(radix)?
NewUnbaser ==
    /\ pc = "new"
    /\ unbaser' = Unbaser_new_usize(args.radix)
    /\ IF IsOk(unbaser')
       THEN pc' = (IF entry = "unbase" THEN "unbase" ELSE "decode") /\ ret' = ret
       ELSE Return(unbaser')
    /\ UNCHANGED <<overflow_checks, entry, source, n, begin_string, end_string,
                   args, new_source>>

\* let new_source = decode_words(&payload, &symtab, &unbaser)
DecodeWords ==
    /\ pc = "decode"
    /\ LET r == decode_words(args.payload, args.symtab, unbaser.val, overflow_checks) IN
       IF IsPanic(r) THEN Return(r) /\ new_source' = new_source
       ELSE /\ new_source' = r.val
            /\ IF entry = "decode_words" THEN Return(r)
               ELSE pc' = "replace" /\ ret' = ret
    /\ UNCHANGED <<overflow_checks, entry, source, n, begin_string, end_string,
                   args, unbaser>>

\* let processed_source = replace_strings(&new_source); Ok(format!(..))
ReplaceStrings ==
    /\ pc = "replace"
    /\ LET r == replace_strings(new_source) IN
       IF IsPanic(r) THEN Return(r)
       ELSE Return(Ok(begin_string \o r.val \o end_string))
    /\ UNCHANGED <<overflow_checks, entry, source, n, begin_string, end_string,
                   args, unbaser, new_source>>

\* the inputs: a call }('payload',radix,count,'symbols'.split('|')tail after a
\* preamble, between a prefix and a suffix
Call(payload, radix, count, symbols, tail) ==
    "}('" \o payload \o "'," \o radix \o "," \o count \o ",'" \o symbols
    \o "'.split('|')" \o tail

Prefixes == {"", "a=b;", "f({}));"}
Preambles == {"eval(function(p,a,c,k,e,r){", "eval ( function(p, a,c,k,e,d){",
              "eval\t(function(p,a,c,k,e,r){", "function(p,a,c,k,e,r){"}
Tails == {",0,{}))", "", ",0,'')))", ",0,{})"}
Suffixes == {"", "c=d;"}
Payloads == {"0 2=1", "0 2=\\'x\\\\y\\' 3", "ZZZZZZZZZZZ 0", "000000000000",
             "0 _a=[\"x\",\"y\"];f(_a[1])", "_a[0];0 _a=[\"x\"];2"}
Radixes == {"62", "[]", "10", "70", "1", "99999999999999999999"}
CountValue == [c \in {"3", "2", "03"} |-> IF c = "2" THEN 2 ELSE 3]
Counts == DOMAIN CountValue \cup {"99999999999999999999"}
Symbols == {"var||a", "var|b"}

CallCases ==
    {[payload |-> pl, radix |-> r, count |-> c, symbols |-> sy] :
        pl \in Payloads, r \in Radixes, c \in Counts, sy \in Symbols}

CallSource(pa, c) == pa \o Call(c.payload, c.radix, c.count, c.symbols, ",0,{}))")

CallPreambles == {"eval(function(p,a,c,k,e,r){", "function(p,a,c,k,e,r){"}

\* what neither grammar of filter_args matches
BrokenCalls ==
    {"", "}", "}('0 2=1',62,2,'var||a')", "}('0 2=1',x,3,'var||a'.split('|'),0,{}))",
     "}('0 2=1',70,,'var||a'.split('|'),0,{}))", "}(\"0 2=1\",1,2,\"var||a\".split(\"|\"),0,{}))"}

Sources ==
    {pre \o pa \o Call("0 2=1", "62", "3", "var||a", tl) \o suf :
        pre \in Prefixes, pa \in Preambles, tl \in Tails, suf \in Suffixes}
    \cup
    {CallSource(pa, c) : pa \in CallPreambles, c \in CallCases}
    \cup
    {pa \o b : pa \in CallPreambles, b \in BrokenCalls}

Init ==
    \E e \in {"unpack", "unpack_unchecked"}, src \in Sources :
        Start(e, src, NoArgs, -1, IF e = "unpack" THEN "detect" ELSE "find")

Next ==
    \/ Detect
    \/ FindSpan
    \/ FilterArgs
    \/ CheckCount
    \/ NewUnbaser
    \/ DecodeWords
    \/ ReplaceStrings

Spec == Init /\ [][Next]_vars

-----------------------------------------------------------------------------
(* Unbaser::new and unbase on their own *)

SupportedRadix == (2..36) \cup (37..62) \cup {95}

\* the numeral alphabet of a supported radix
AlphabetOf(r) ==
    IF r <= 36 THEN SubSeq(DIGITS \o LOWER, 1, r)
    ELSE IF r <= 62 THEN SubSeq(DIGITS \o LOWER \o UPPER, 1, r)
    ELSE EXTENDED_ASCII

\* k as a positional numeral of radix r
RECURSIVE Encode(_, _)
Encode(k, r) ==
    IF k < r THEN CharAt(AlphabetOf(r), k + 1)
    ELSE Encode(k \div r, r) \o CharAt(AlphabetOf(r), (k % r) + 1)

RECURSIVE Repeat(_, _)
Repeat(c, k) == IF k = 0 THEN "" ELSE c \o Repeat(c, k - 1)

ProbeChars == {"0", "1", "z", "Z", "@"}
ProbeTokens == {Repeat(c, k) : c \in ProbeChars, k \in 0..MaxTokenLen}

RoundTripValues == (0..MaxN) \cup {MaxValue - k * (MaxValue \div MaxN) : k \in 0..MaxN}

InitUnbase ==
    \E r \in 0..MaxRadix :
        \/ \E t \in ProbeTokens :
              Start("unbase", t, [NoArgs EXCEPT !.radix = UFromNat(r)], -1, "new")
        \/ \E k \in RoundTripValues :
              /\ r \in SupportedRadix
              /\ Start("unbase", Encode(k, r), [NoArgs EXCEPT !.radix = UFromNat(r)],
                       k, "new")

\* unbaser.unbase(token)
DoUnbase ==
    /\ pc = "unbase"
    /\ Return(unbase(unbaser.val, source, overflow_checks))
    /\ UNCHANGED <<overflow_checks, entry, source, n, begin_string, end_string,
                   args, unbaser, new_source>>

NextUnbase == NewUnbaser \/ DoUnbase

SpecUnbase == InitUnbase /\ [][NextUnbase]_vars

Radix == UToNat(args.radix)

\* C3: Unbaser::new(radix) succeeds exactly for the radixes 2..=36, 37..=62 and
\* 95 and returns "Unsupported base encoding." for every other one; unbase on
\* a decoder that was constructed never fails because of the radix: it neither
\* returns that error, nor finds the dictionary missing, nor hands the native
\* parser a radix it refuses.
C3_RadixRejectedOnlyAtConstruction ==
    (entry = "unbase" /\ pc # "new") =>
        /\ IsOk(unbaser) <=> Radix \in (2..36) \cup (37..62) \cup {95}
        /\ ~IsOk(unbaser) => (pc = "done" /\ ret = Err("Unsupported base encoding."))
        /\ (IsOk(unbaser) /\ pc = "done") =>
               /\ ret # Err("Unsupported base encoding.")
               /\ ret # Err("Dictionary not initialized")
               /\ ret # Panic("from_str_radix: radix must lie in the range [2, 36]")

C3_Witness ==
    /\ entry = "unbase" /\ pc = "done" /\ Radix = 63
    /\ ret = Err("Unsupported base encoding.")

\* C4: for every supported radix r and every integer n of the range, unbase
\* of the numeral of n in r's alphabet returns Ok(n).
C4_RoundTrip ==
    (entry = "unbase" /\ pc = "done" /\ n >= 0) => ret = Ok(UFromNat(n))

C4_Witness ==
    /\ entry = "unbase" /\ pc = "done" /\ n = MaxValue /\ Radix = 62
    /\ Len(source) = 3 /\ ret = Ok(UFromNat(MaxValue))

\* C8: unbase never panics: on every constructed decoder and every token it
\* returns Ok or an explicit Err.
C8_UnbaseNeverPanics ==
    (entry = "unbase" /\ pc = "done") => ~IsPanic(ret)

-----------------------------------------------------------------------------
(* detect on its own *)

PreambleTokens ==
    <<"eval", "(", "function", "(", "p", ",", "a", ",", "c", ",", "k", ",", "e", ",">>

\* the tokens from the i-th on, each followed by the gap gaps[i]
RECURSIVE JoinTokens(_, _, _)
JoinTokens(tokens, gaps, i) ==
    IF i > Len(tokens) THEN ""
    ELSE tokens[i] \o gaps[i] \o JoinTokens(tokens, gaps, i + 1)

Gaps == {Repeat(" ", k) : k \in 0..MaxSpaces} \cup {"\t", " \t", "\n"}

\* the preamble with the same gap everywhere, or with one gap at one place
GapLayouts ==
    {[i \in 1..Len(PreambleTokens) |-> g] : g \in Gaps}
    \cup {[i \in 1..Len(PreambleTokens) |-> IF i = j THEN g ELSE ""] :
             g \in Gaps, j \in 1..Len(PreambleTokens)}

\* the preamble with one token left out
BrokenPreambles ==
    {JoinTokens([i \in 1..Len(PreambleTokens) |->
                    IF i = j THEN "" ELSE PreambleTokens[i]],
                [i \in 1..Len(PreambleTokens) |-> ""], 1) :
        j \in 1..Len(PreambleTokens)}

DetectInputs ==
    {"", "var a = b", "eval", "eval(function(p,a,c,k,e"}
    \cup {pre \o JoinTokens(PreambleTokens, gaps, 1) \o suf :
             pre \in {"", "x=1;"}, gaps \in GapLayouts, suf \in {"", "r){}(1))"}}
    \cup {bad \o "r){}('0',2,1,'a'.split('|'),0,{}))" : bad \in BrokenPreambles}

InitDetect == \E src \in DetectInputs : Start("detect", src, NoArgs, -1, "call")

\* detect(source)
CallDetect ==
    /\ pc = "call"
    /\ entry = "detect"
    /\ Return(Ok(detect(source)))
    /\ UNCHANGED <<overflow_checks, entry, source, n, begin_string, end_string,
                   args, unbaser, new_source>>

NextDetect == CallDetect
SpecDetect == InitDetect /\ [][NextDetect]_vars

\* first position at or after p whose character is not in ws
SkipGap(text, p, ws) ==
    LET stops == {q \in p..Len(text) : CharAt(text, q) \notin ws} IN
    IF stops = {} THEN Len(text) + 1 ELSE Min(stops)

\* the tokens from the i-th on stand at position p, runs of ws between them
RECURSIVE TokensAt(_, _, _, _, _)
TokensAt(tokens, i, text, p, ws) ==
    IF i > Len(tokens) THEN TRUE
    ELSE /\ HasAt(text, p, tokens[i])
         /\ TokensAt(tokens, i + 1, text, SkipGap(text, p + Len(tokens[i]), ws), ws)

\* positions where the token sequence of the preamble starts
PreambleStarts(text, ws) ==
    {p \in 1..Len(text) : TokensAt(PreambleTokens, 1, text, p, ws)}

\* C6 as stated: detect(text) is true iff text holds the token sequence
\* eval ( function ( p , a , c , k , e , with runs of spaces or tabs between
\* consecutive tokens.
C6_DetectSpacesOrTabs ==
    (entry = "detect" /\ pc = "done") =>
        ret = Ok(PreambleStarts(source, {" ", "\t"}) # {})

\* C6 amended: detect(text) is true iff text holds the token sequence with
\* runs of the space character alone between consecutive tokens: a tab (or any
\* other character) between two tokens makes it false.  It is false on the
\* empty text and needs nothing of the rest of the call.
C6_DetectSpacesOnly ==
    (entry = "detect" /\ pc = "done") =>
        ret = Ok(PreambleStarts(source, {" "}) # {})

C6_Witness ==
    /\ entry = "detect" /\ pc = "done" /\ ret = Ok(TRUE)
    /\ Contains(source, "p" \o Repeat(" ", MaxSpaces) \o ",")
    /\ ~Contains(source, "}(")

-----------------------------------------------------------------------------
(* filter_args on its own *)

FullTail == ",0,{}))"

\* the call with spaces after its commas
CallSpaced(payload, radix, count, symbols, tail) ==
    "}('" \o payload \o "',  " \o radix \o ", " \o count \o ", '" \o symbols
    \o "'.split('|')" \o tail

ArgsInputs ==
    {hd \o Call(pl, r, c, sy, tl) \o suf :
        hd \in {"", "eval(function(p,a,c,k,e,r){"},
        pl \in {"0 2=1", "", "a',1,'b"},
        r \in {"62", "[]", "x", "99999999999999999999"},
        c \in {"3", "99999999999999999999"},
        sy \in {"var||a", ""},
        tl \in {FullTail, "", ", 1, [])) ", ",0,{})", ")"},
        suf \in {"", ";"}}
    \cup
    {CallSpaced("0 2=1", "10", "3", "var||a", tl) : tl \in {FullTail, ""}}
    \cup
    \* two calls in one text
    {Call("A", "1", "1", "x", t1) \o ";" \o Call("B", "2", "1", "y", t2) :
        t1 \in {FullTail, ""}, t2 \in {FullTail, ""}}
    \cup
    \* neither grammar
    {"", "var a = b", "('0',62,1,'a'.split('|'),0,{}))",
     "}(\"0\",62,1,\"a\".split(\"|\"),0,{}))", "}('0',62,'a'.split('|'),0,{}))",
     "}('0',-2,1,'a'.split('|'))", "}('0',62,1,'a'.split(','),0,{}))",
     "}('0'\n,62,1,'a'.split('|'),0,{}))"}

InitArgs == \E src \in ArgsInputs : Start("filter_args", src, NoArgs, -1, "filter_args")

NextArgs == FilterArgs
SpecArgs == InitArgs /\ [][NextArgs]_vars

UNEXPECTED == "Could not make sense of p.a.c.k.e.r data (unexpected code structure)"

\* C7: filter_args tries the full form first and the simple form second and
\* returns what the first grammar that matches captured, nothing of the other;
\* a call that ends at .split('|') is extracted through the simple form; a
\* text that matches neither fails with the "unexpected code structure" error.
C7_FirstGrammarWins ==
    (entry = "filter_args" /\ pc = "done") =>
        LET full == RegexFind(JUICER_FULL, source)
            simple == RegexFind(JUICER_SIMPLE, source)
        IN /\ full.ok => ret = juice(source, full)
           /\ (~full.ok /\ simple.ok) => ret = juice(source, simple)
           /\ (~full.ok /\ ~simple.ok) => ret = Err(UNEXPECTED)
           /\ source = Call("0 2=1", "[]", "3", "var||a", "") =>
                 ret = Ok([payload |-> "0 2=1", symtab |-> <<"var", "", "a">>,
                           radix |-> UFromNat(62), count |-> UFromNat(3)])
           /\ source = CallSpaced("0 2=1", "10", "3", "var||a", "") =>
                 ret = Ok([payload |-> "0 2=1", symtab |-> <<"var", "", "a">>,
                           radix |-> UFromNat(10), count |-> UFromNat(3)])
           /\ source = Call("A", "1", "1", "x", FullTail) \o ";" \o Call("B", "2", "1", "y", "") =>
                 ret = Ok([payload |-> "A", symtab |-> <<"x">>,
                           radix |-> UFromNat(1), count |-> UFromNat(1)])
           /\ source = "}('0',62,'a'.split('|'),0,{}))" => ret = Err(UNEXPECTED)

C7_Witness ==
    /\ entry = "filter_args" /\ pc = "done" /\ IsOk(ret)
    /\ source = Call("0 2=1", "[]", "3", "var||a", "")
    /\ ~RegexFind(JUICER_FULL, source).ok

-----------------------------------------------------------------------------
(* decode_words on its own *)

WordPayloads ==
    {"", "0 2=1", "0 2=\\'x\\\\y\\' 3", "a_1 b-10", "1+1=2;", "10 Z z 11 f F",
     "$(1).0(2(){ $('.3').0(4)})", "ZZZZZZZZZZZ 0", "1 000000000000",
     "zzzzzzzzzz", "zzzzzzzzzzzzz 1"}
WordSymtabs ==
    {<<"var", "", "a">>, <<"1", "0 2", "x_y", "", "z">>, <<"">>,
     <<"html", "ready", "function", "b", "", "c", "d", "e", "f", "g", "h", "i">>}
WordRadixes == {2, 10, 16, 36, 37, 62, 95}

InitWords ==
    \E pl \in WordPayloads, st \in WordSymtabs, r \in WordRadixes :
        Start("decode_words", pl,
              [payload |-> pl, symtab |-> st, radix |-> UFromNat(r),
               count |-> UFromNat(Len(st))],
              -1, "new")

NextWords == NewUnbaser \/ DecodeWords
SpecWords == InitWords /\ [][NextWords]_vars

\* what the claim says of one token
TokenOrSymbol(tok, symtab, u, checks) ==
    LET r == unbase(u, tok, checks) IN
    IF IsOk(r) /\ UIsSmall(r.val) /\ UToNat(r.val) < Len(symtab)
       /\ symtab[UToNat(r.val) + 1] # ""
    THEN symtab[UToNat(r.val) + 1]
    ELSE tok

\* the text character by character: a maximal run of word characters is a
\* token and is rewritten where it starts, every other character stays
Decoded(text, symtab, u, checks) ==
    LET piece(p) ==
            IF ~IsWordChar(CharAt(text, p)) THEN CharAt(text, p)
            ELSE IF p > 1 /\ IsWordChar(CharAt(text, p - 1)) THEN ""
            ELSE TokenOrSymbol(SubSeq(text, p, SkipGap(text, p, WORD_CHARS) - 1),
                               symtab, u, checks)
    IN Concat([p \in 1..Len(text) |-> piece(p)], 1, Len(text))

\* C5: after escape cleaning, each maximal word token is replaced by
\* symbol_table[i] exactly when unbase(token) = Ok(i), i is in range and the
\* entry is not empty; every other token and every other character is in the
\* output unchanged and in order; replacement text is not scanned again.
C5_TokensReplacedOrKept ==
    (entry = "decode_words" /\ pc = "done") =>
        ret = Ok(Decoded(clean_escapes(args.payload), args.symtab,
                         unbaser.val, overflow_checks))

\* C5 on the runs in which unbase does not panic (see C8)
C5_UnlessUnbasePanics ==
    (entry = "decode_words" /\ pc = "done" /\ ~IsPanic(ret)) =>
        ret = Ok(Decoded(clean_escapes(args.payload), args.symtab,
                         unbaser.val, overflow_checks))

-----------------------------------------------------------------------------
(* replace_strings on its own, applied once and then to its own output *)

\* "s1","s2",...
RECURSIVE Quoted(_, _)
Quoted(strs, i) ==
    IF i > Len(strs) THEN ""
    ELSE "\"" \o strs[i] \o "\"" \o (IF i < Len(strs) THEN "," ELSE "") \o Quoted(strs, i + 1)

Decl(sp, id, strs) == "var" \o sp \o id \o "=[" \o Quoted(strs, 1) \o "];"

\* id[i]
Ref(id, i) == id \o "[" \o CharAt(DIGITS, i + 1) \o "]"

InlineCases ==
    {[before |-> b, sp |-> sp, id |-> id, strs |-> ss, after |-> a] :
        b \in {"", "x=1;", "f(_a[0]);", "_a[1]"},
        sp \in {"", " "},
        id \in {"_a", "_0x1"},
        ss \in {<<"x">>, <<"a", "b c">>, <<"">>},
        a \in {"", "f(_a[0]);", " f(_0x1[0],_0x1[1]);", "g(b_a[1]+_a[0],_a[2])",
              "var _b=[\"y\"];h(_b[0],_a[0])"}}

Build(c) == c.before \o Decl(c.sp, c.id, c.strs) \o c.after

InlineInputs ==
    {Build(c) : c \in InlineCases}
    \cup {"", "f(_a[0]);", "var a=[\"x\"];f(a[0])", "var _a=['x'];f(_a[0])",
          "var _a=[\"x\"]f(_a[0])", "var _=[\"x\"];f(_[0])", "var _a=[1,2];f(_a[0])",
          "var _a=[\"x\n\"];f(_a[0])", "var\t_a=[\"x\"];f(_a[0])"}

InitInline == \E src \in InlineInputs : Start("replace_strings", src, NoArgs, -1, "call")

\* replace_strings(source)
InlineOnce ==
    /\ pc = "call"
    /\ entry = "replace_strings"
    /\ LET r == replace_strings(source) IN
       /\ ret' = r
       /\ new_source' = (IF IsOk(r) THEN r.val ELSE new_source)
       /\ pc' = (IF IsOk(r) THEN "again" ELSE "done")
    /\ UNCHANGED <<overflow_checks, entry, source, n, begin_string, end_string,
                   args, unbaser>>

\* replace_strings(new_source), new_source being the output of the first call
InlineAgain ==
    /\ pc = "again"
    /\ ret' = replace_strings(new_source)
    /\ pc' = "twice"
    /\ UNCHANGED <<overflow_checks, entry, source, n, begin_string, end_string,
                   args, unbaser, new_source>>

NextInline == InlineOnce \/ InlineAgain
SpecInline == InitInline /\ [][NextInline]_vars

\* text with every occurrence of id[i], i an index of strs, replaced by the
\* i-th string in double quotes
Inlined(text, id, strs) ==
    LET at(p, i) == HasAt(text, p, Ref(id, i))
        idx == 0..(Len(strs) - 1)
        piece(p) ==
            IF \E i \in idx : at(p, i)
            THEN "\"" \o strs[(CHOOSE i \in idx : at(p, i)) + 1] \o "\""
            ELSE IF \E q \in 1..(p - 1), i \in idx : at(q, i) /\ p < q + Len(Ref(id, i))
            THEN ""
            ELSE CharAt(text, p)
    IN Concat([p \in 1..Len(text) |-> piece(p)], 1, Len(text))

\* C9: replace_strings is total and, on a source that holds a declaration
\* var <id>=["s0","s1",...];, returns the text after the first declaration
\* with every <id>[i] replaced by the i-th string in double quotes, also when
\* references stand before the declaration.
C9_InlineAfterDeclaration ==
    (entry = "replace_strings" /\ pc \in {"again", "done"}) =>
        \A c \in InlineCases :
            source = Build(c) => ret = Ok(Inlined(c.after, c.id, c.strs))

\* C9 on the sources that hold no reference before the declaration
C9_UnlessReferenceBefore ==
    (entry = "replace_strings" /\ pc \in {"again", "done"}) =>
        \A c \in InlineCases :
            (source = Build(c) /\ ~Contains(c.before, c.id \o "[")) =>
                ret = Ok(Inlined(c.after, c.id, c.strs))

\* text holds var, spaces, an identifier that starts with _, =[" and, later on
\* the same line, "];
HasDeclaration(text) ==
    \E i \in 1..Len(text) :
        /\ HasAt(text, i, "var")
        /\ LET j == SkipGap(text, i + 3, {" "})
               k == SkipGap(text, j + 1, WORD_CHARS)
           IN /\ HasAt(text, j, "_")
              /\ k > j + 1
              /\ HasAt(text, k, "=[\"")
              /\ \E m \in (k + 3)..Len(text) :
                    /\ HasAt(text, m, "\"];")
                    /\ ~Contains(SubSeq(text, k + 3, m - 1), "\n")

\* C10 as stated: inline(inline(source)) = inline(source) for every source,
\* and inline(source) = source when the source holds no declaration.
C10_IdempotentEverywhere ==
    /\ (entry = "replace_strings" /\ pc = "twice") => ret = Ok(new_source)
    /\ (entry = "replace_strings" /\ pc \in {"again", "done"} /\ ~HasDeclaration(source)) =>
          ret = Ok(source)

\* C10 amended: inline(inline(source)) = inline(source) whenever inline(source)
\* returns a text that holds no array declaration itself (a second
\* declaration after the first one is inlined by the second call), and
\* inline(source) = source when the source holds no declaration.
C10_IdempotentOnInlinedText ==
    /\ (entry = "replace_strings" /\ pc = "twice" /\ ~HasDeclaration(new_source)) =>
          ret = Ok(new_source)
    /\ (entry = "replace_strings" /\ pc \in {"again", "done"} /\ ~HasDeclaration(source)) =>
          ret = Ok(source)

C10_Witness ==
    /\ entry = "replace_strings" /\ pc = "twice"
    /\ HasDeclaration(source) /\ ~HasDeclaration(new_source)
    /\ new_source = "f(\"x\");" /\ ret = Ok(new_source)

-----------------------------------------------------------------------------
(* unpack and unpack_unchecked as a whole *)

Unpacking == entry \in {"unpack", "unpack_unchecked"}

\* the number of pipe-separated segments of a symbol string, empty ones counted
Segments(symbols) == Cardinality({i \in 1..Len(symbols) : CharAt(symbols, i) = "|"}) + 1

MISMATCH(c, k) ==
    "Malformed p.a.c.k.e.r. symtab. (" \o CharAt(DIGITS, c + 1) \o " != "
    \o CharAt(DIGITS, k + 1) \o ")"

\* C2: when filter_args has extracted the arguments of the call and the
\* declared count differs from the number of pipe-separated segments of the
\* symbol string (empty segments counted), unpack and unpack_unchecked return
\* the error "Malformed p.a.c.k.e.r. symtab. (count != segments)" and never Ok.
C2_CountMismatchIsError ==
    (Unpacking /\ pc = "done" /\ args # NoArgs) =>
        \A pa \in CallPreambles, c \in CallCases :
            (/\ c.count \in DOMAIN CountValue
             /\ CountValue[c.count] # Segments(c.symbols)
             /\ source = CallSource(pa, c)) =>
                ret = Err(MISMATCH(CountValue[c.count], Segments(c.symbols)))

C2_Witness ==
    /\ Unpacking /\ pc = "done"
    /\ args.count = UFromNat(2)
    /\ args.symtab = <<"var", "", "a">>
    /\ ret = Err("Malformed p.a.c.k.e.r. symtab. (2 != 3)")

\* the text before the first preamble match
Prefix(text) == SubSeq(text, 1, Min(PreambleStarts(text, {" "})) - 1)

\* the text after the first ')))  if there is one, else after the first })) ,
\* else nothing
Suffix(text) ==
    LET after(d) == SubSeq(text, FindFrom(text, d, 1) + Len(d), Len(text)) IN
    IF Contains(text, "')))") THEN after("')))")
    ELSE IF Contains(text, "}))") THEN after("}))")
    ELSE ""

Unpackable ==
    /\ PreambleStarts(source, {" "}) # {}
    /\ IsOk(filter_args(source))
    /\ args.count = UFromNat(Len(args.symtab))
    /\ UIsSmall(args.radix)
    /\ UToNat(args.radix) \in SupportedRadix

\* C1: on an input where detect is true, argument extraction succeeds, the
\* declared count equals the symbol-table length and the radix is supported,
\* unpack returns Ok(prefix + inline(decode(payload)) + suffix).
C1_UnpackComposes ==
    (entry = "unpack" /\ pc = "done" /\ Unpackable) =>
        LET decoded == decode_words(args.payload, args.symtab,
                                    Unbaser_new(UToNat(args.radix)).val, overflow_checks)
        IN /\ IsOk(decoded)
           /\ LET inlined == replace_strings(decoded.val) IN
              /\ IsOk(inlined)
              /\ ret = Ok(Prefix(source) \o inlined.val \o Suffix(source))

\* C1 on the inputs where neither the word decoder nor the inliner panics
C1_UnlessPanic ==
    (entry = "unpack" /\ pc = "done" /\ Unpackable) =>
        LET decoded == decode_words(args.payload, args.symtab,
                                    Unbaser_new(UToNat(args.radix)).val, overflow_checks)
        IN IsOk(decoded) =>
              LET inlined == replace_strings(decoded.val) IN
              IsOk(inlined) => ret = Ok(Prefix(source) \o inlined.val \o Suffix(source))

-----------------------------------------------------------------------------
(* the order of the checks of unpack *)

\* the radix a literal of the generated calls stands for
RadixValue ==
    [r \in {"62", "[]", "10", "70", "1"} |->
        IF r = "10" THEN 10 ELSE IF r = "70" THEN 70 ELSE IF r = "1" THEN 1 ELSE 62]

Passed == [tag |-> "Passed", val |-> ""]

\* the first check, in the order not-packer, radix literal, count literal,
\* cardinality, base, that the generated call c after the preamble pa fails
FirstFailure(pa, c) ==
    IF PreambleStarts(pa, {" "}) = {} THEN Err("Invalid p.a.c.k.e.r data.")
    ELSE IF c.radix \notin DOMAIN RadixValue THEN Err("Invalid radix")
    ELSE IF c.count \notin DOMAIN CountValue THEN Err("Invalid count")
    ELSE IF CountValue[c.count] # Segments(c.symbols)
        THEN Err(MISMATCH(CountValue[c.count], Segments(c.symbols)))
    ELSE IF RadixValue[c.radix] \notin SupportedRadix THEN Err("Unsupported base encoding.")
    ELSE Passed

\* not-packer first, then unexpected code structure
FirstFailureBroken(pa) ==
    IF PreambleStarts(pa, {" "}) = {} THEN Err("Invalid p.a.c.k.e.r data.")
    ELSE Err(UNEXPECTED)

\* word decoding starts only after every check has passed
DecodingOnlyAfterChecks ==
    (entry = "unpack" /\ (pc \in {"decode", "replace"} \/ new_source # "")) =>
        /\ \A pa \in CallPreambles, b \in BrokenCalls : source # pa \o b
        /\ \A pa \in CallPreambles, c \in CallCases :
              source = CallSource(pa, c) => FirstFailure(pa, c) = Passed

\* C11: the checks of unpack run in the order not-packer, unexpected code
\* structure, invalid radix literal, invalid count literal, cardinality
\* mismatch, unsupported base, and the first that fails alone gives the error
\* returned; word decoding starts only after all of them have passed, and from
\* then on unpack returns Ok whatever the tokens decode to.
C11_FirstFailureDecides ==
    /\ DecodingOnlyAfterChecks
    /\ (entry = "unpack" /\ pc = "done") =>
          /\ \A pa \in CallPreambles, b \in BrokenCalls :
                source = pa \o b => ret = FirstFailureBroken(pa)
          /\ \A pa \in CallPreambles, c \in CallCases :
                source = CallSource(pa, c) =>
                    IF FirstFailure(pa, c) = Passed THEN IsOk(ret)
                    ELSE ret = FirstFailure(pa, c)

\* C11 with a panic of the word decoder or of the inliner allowed once every
\* check has passed
C11_UnlessPanic ==
    /\ DecodingOnlyAfterChecks
    /\ (entry = "unpack" /\ pc = "done") =>
          /\ \A pa \in CallPreambles, b \in BrokenCalls :
                source = pa \o b => ret = FirstFailureBroken(pa)
          /\ \A pa \in CallPreambles, c \in CallCases :
                source = CallSource(pa, c) =>
                    IF FirstFailure(pa, c) = Passed THEN IsOk(ret) \/ IsPanic(ret)
                    ELSE ret = FirstFailure(pa, c)

=============================================================================
